---- MODULE Spec2Model ----
(***************************************************************************)
(* A state-machine model of webviewElement.ts: the webview tag handle      *)
(* (WebviewTagHandle), the request interception session (WebviewSession),  *)
(* the resource protocol provider (WebviewProtocolProvider), the port      *)
(* mapping delegate (WebviewPortMappingProvider) and the content part of   *)
(* ElectronWebviewBasedWebview (descriptor setters, _send, reload).        *)
(***************************************************************************)
EXTENDS Integers, Sequences, FiniteSets, TLC

\* ------------------------------------------------------------------ bounds
MaxSignals == 2
MaxReads == 2
MaxDelegates == 2
MaxEvents == 2
MaxSends == 3
MaxSearches == 2

VARIABLES
    \* WebviewTagHandle
    webContentsField,      \* _webContents: "undefined" | "wc" | "destroyed"
    surfaceContents,       \* what webview.getWebContents() returns now
    loadOnce,              \* the once() wrapper of the did-start-loading listener has run
    firstLoadFires,        \* how many times _onFirstLoad.fire ran
    startLoadingSignals,   \* did-start-loading signals seen
    obtainableSignalSeen,  \* a did-start-loading arrived while the accessor yields a session
    accessLog,             \* results of accessor reads made by dependants
    accessed,              \* the accessor has been read
    obtained,              \* getWebContents() has handed back a session
    askedAgain,            \* getWebContents() was called on an access after the first
    askedAfterObtained,    \* getWebContents() was called after it had handed back a session
    \* WebviewSession
    reqDelegates,          \* _onBeforeRequestDelegates
    hdrDelegates,          \* _onHeadersReceivedDelegates
    requests,              \* request events, by id
    nReq,                  \* request events started
    hdrEvents,             \* response-headers events handled
    \* WebviewProtocolProvider
    registration,          \* what registerProtocols handed to registerFileProtocol
    resLog,                \* resource requests served by the protocol handler
    \* ElectronWebviewBasedWebview
    extension,             \* this.extension (its location), or "none"
    content,               \* this.content: html, options, state
    element,               \* this.element is still there
    ready,                 \* the _ready promise has resolved
    pending,               \* _ready.then callbacks not yet run, in order
    delivered,             \* messages handed to element.send, in order
    dropped,               \* messages whose _send callback found no element
    nSends,                \* _send calls made
    pushLog,               \* the descriptor at each doUpdateContent call
    lastOp,                \* the webview method or message handler that ran last
    focused,               \* _focused
    focusFired,            \* _onDidFocus has fired
    refired,               \* _onDidFocus fired while _focused was already true
    findStarted,           \* _findStarted
    searchLog,             \* findInPage calls since the last stopFindInPage
    lastHasResult,         \* the last value _hasFindResult fired: "none" | "true" | "false"
    hasAlertedAboutMissingCsp, \* _hasAlertedAboutMissingCsp
    missingCspFires,       \* how many times _onMissingCsp fired
    firstCspSignal,        \* the extension at the first no-csp-found signal, "unseen" before
    \* environment
    isMacintosh,           \* platform.isMacintosh
    isExtensionDevelopment, \* IEnvironmentService.isExtensionDevelopment
    \* WebviewKeyboardHandler
    ignoreMenuShortcut,    \* _ignoreMenuShortcut
    lastActiveKeydown,     \* control || meta of the last keydown with the webview active
    hostFlag,              \* what contents.setIgnoreMenuShortcuts last set: "unset" | "on" | "off"
    writeTick              \* flips at every contents.setIgnoreMenuShortcuts call

accessGhosts == <<accessed, obtained, askedAgain, askedAfterObtained>>
handleVars == <<webContentsField, surfaceContents, loadOnce, firstLoadFires,
                startLoadingSignals, obtainableSignalSeen, accessLog, accessGhosts>>
sessionVars == <<reqDelegates, hdrDelegates, requests, nReq, hdrEvents>>
protocolVars == <<registration, resLog>>
webviewVars == <<extension, content, element, ready, pending, delivered, dropped,
                 nSends, pushLog, lastOp>>
focusVars == <<focused, focusFired, refired>>
findVars == <<findStarted, searchLog, lastHasResult>>
cspVars == <<hasAlertedAboutMissingCsp, missingCspFires, firstCspSignal>>
environmentVars == <<isMacintosh, isExtensionDevelopment>>
keyboardVars == <<ignoreMenuShortcut, lastActiveKeydown, hostFlag, writeTick>>
uiVars == <<focusVars, findVars, cspVars, environmentVars, keyboardVars>>
vars == <<handleVars, sessionVars, protocolVars, webviewVars, uiVars>>

\* ------------------------------------------------------------------ values
NoUrl == [host |-> "", port |-> 0, path |-> ""]
MappedUrl == [host |-> "localhost", port |-> 3000, path |-> "/api"]
PlainUrl == [host |-> "localhost", port |-> 8080, path |-> "/x"]
RequestUrls == {MappedUrl, PlainUrl}
HeaderSets == {"h1", "h2"}

\* Locations: a URI is the sequence of its path segments.
RootA == <<"a">>
RootB == <<"b">>
ExtLocA == <<"ext", "one">>
ExtLocB == <<"ext", "two">>
ResourcePaths == {<<"a", "f">>, <<"b", "f">>, <<"ext", "one", "f">>}
ExtensionValues == {"none", "extA", "extB"}

\* An optional array field of WebviewContentOptions.
Absent == [defined |-> FALSE, value |-> <<>>]
Some(v) == [defined |-> TRUE, value |-> v]
\* `x || []`
OrEmpty(x) == IF x.defined THEN x.value ELSE <<>>

\* WebviewContentOptions objects; ident tells two objects with equal fields apart.
Mapping3000 == [webviewPort |-> 3000, extensionHostPort |-> 9000]
InitialOptions ==
    [ident |-> 1, localResourceRoots |-> Some(<<RootA>>), portMapping |-> Some(<<Mapping3000>>)]
OptionValues ==
    { InitialOptions,
      [ident |-> 2, localResourceRoots |-> Some(<<RootA>>), portMapping |-> Some(<<Mapping3000>>)],
      [ident |-> 3, localResourceRoots |-> Some(<<RootA, RootB>>), portMapping |-> Absent],
      [ident |-> 4, localResourceRoots |-> Absent, portMapping |-> Absent] }
HtmlValues == {"a", "b"}
StateValues == {"undefined", "s1"}

\* What a delegate hands back: no opinion, a response, or a failure.
Undefined == [kind |-> "undefined", cancel |-> FALSE, redirectURL |-> NoUrl,
              responseHeaders |-> "absent"]
Throws == [kind |-> "throws", cancel |-> FALSE, redirectURL |-> NoUrl,
           responseHeaders |-> "absent"]
Response(cancel, redirect, headers) ==
    [kind |-> "response", cancel |-> cancel, redirectURL |-> redirect,
     responseHeaders |-> headers]

\* ------------------------------------------------------------------ WebviewTagHandle

\* get webContents() without its 'destroyed' test: the surface is asked again
WebContentsGetterIgnoresDestroyed(field, surface) ==
    IF field \notin {"undefined", "destroyed"} THEN field ELSE surface

\* get webContents(): the value returned
WebContentsGetter(field, surface) ==
    IF field = "destroyed" THEN "undefined"
    ELSE IF field # "undefined" THEN field
    ELSE surface

\* get webContents(): the field after the call
WebContentsFieldAfterGet(field, surface) ==
    IF field = "destroyed" THEN field
    ELSE IF field # "undefined" THEN field
    ELSE surface


\* what getWebviewThemeData() hands to style()
ThemeData == [value |-> "theme"]

\* the constructor ends with this.style(): one 'styles' message is queued on
\* _ready before any method can be called
ConstructorStyles ==
    [channel |-> "styles", data |-> ThemeData, n |-> 1,
     beforeReady |-> TRUE, afterDestroyed |-> FALSE]

\* get webContents(): whether the call reaches this.webview.getWebContents()
AsksSurface(field) == field = "undefined"

\* ------------------------------------------------------------------ Init
Op(name, arg) == [name |-> name, arg |-> arg]

\* results holds what each delegate called for the event returned, in call
\* order; callbacks counts the calls of the event's callback
NoRequest ==
    [status |-> "none", url |-> NoUrl, idx |-> 0, awaited |-> Undefined,
     evaluated |-> <<>>, results |-> <<>>, answer |-> Undefined, callbacks |-> 0]

Init ==
    /\ webContentsField = "undefined"
    /\ surfaceContents \in {"undefined", "wc"}
    /\ loadOnce = FALSE
    /\ firstLoadFires = 0
    /\ startLoadingSignals = 0
    /\ obtainableSignalSeen = FALSE
    /\ accessLog = <<>>
    /\ accessed = FALSE
    /\ obtained = FALSE
    /\ askedAgain = FALSE
    /\ askedAfterObtained = FALSE
    /\ reqDelegates = <<"portMapping">>
    /\ hdrDelegates = <<>>
    /\ requests = [i \in 1..MaxEvents |-> NoRequest]
    /\ nReq = 0
    /\ hdrEvents = <<>>
    /\ registration = [count |-> 0, extensionLocation |-> "none"]
    /\ resLog = <<>>
    /\ extension = "none"
    /\ content = [html |-> "", options |-> InitialOptions, state |-> "undefined"]
    /\ element = TRUE
    /\ ready = FALSE
    /\ pending = <<ConstructorStyles>>
    /\ delivered = <<>>
    /\ dropped = <<>>
    /\ nSends = 1
    /\ pushLog = <<>>
    /\ lastOp = Op("constructor", 0)
    /\ focused = FALSE
    /\ focusFired = FALSE
    /\ refired = FALSE
    /\ findStarted = FALSE
    /\ searchLog = <<>>
    /\ lastHasResult = "none"
    /\ hasAlertedAboutMissingCsp = FALSE
    /\ missingCspFires = 0
    /\ firstCspSignal = "unseen"
    /\ isMacintosh \in BOOLEAN
    /\ isExtensionDevelopment \in BOOLEAN
    /\ ignoreMenuShortcut = FALSE
    /\ lastActiveKeydown = "none"
    /\ hostFlag = "unset"
    /\ writeTick = FALSE

\* ------------------------------------------------------------------ handle actions

\* one read of handle.webContents: the field it leaves and what it asked of the surface
AccessWebContents ==
    LET asks == AsksSurface(webContentsField) IN
    /\ webContentsField' = WebContentsFieldAfterGet(webContentsField, surfaceContents)
    /\ accessed' = TRUE
    /\ obtained' = (obtained \/ (asks /\ surfaceContents # "undefined"))
    /\ askedAgain' = (askedAgain \/ (asks /\ accessed))
    /\ askedAfterObtained' = (askedAfterObtained \/ (asks /\ obtained))

\* the 'destroyed' listener
OnDestroyed ==
    /\ webContentsField' = "destroyed"
    /\ UNCHANGED <<surfaceContents, loadOnce, firstLoadFires, startLoadingSignals,
                   obtainableSignalSeen, accessLog, accessGhosts>>
    /\ UNCHANGED <<sessionVars, protocolVars, webviewVars, uiVars>>

\* The surface gains or loses its guest contents (what getWebContents() gives).
SurfaceChange ==
    /\ surfaceContents' = IF surfaceContents = "wc" THEN "undefined" ELSE "wc"
    /\ UNCHANGED <<webContentsField, loadOnce, firstLoadFires, startLoadingSignals,
                   obtainableSignalSeen, accessLog, accessGhosts>>
    /\ UNCHANGED <<sessionVars, protocolVars, webviewVars, uiVars>>

\* once(fn): fn runs on the first call only
OnceRuns(didCall) == ~didCall

\* this.extension ? this.extension.location : undefined
GetExtensionLocation(ext) == ext

\* registerProtocols: the arguments handed to registerFileProtocol
RegisterProtocols(reg, ext) ==
    [count |-> reg.count + 1, extensionLocation |-> GetExtensionLocation(ext)]

\* the 'did-start-loading' listener, with the onFirstLoad listeners it runs
OnDidStartLoading ==
    /\ startLoadingSignals < MaxSignals
    /\ startLoadingSignals' = startLoadingSignals + 1
    /\ LET contents == WebContentsGetter(webContentsField, surfaceContents) IN
        /\ obtainableSignalSeen' = (obtainableSignalSeen \/ contents # "undefined")
        /\ IF OnceRuns(loadOnce)
           THEN /\ loadOnce' = TRUE
                /\ AccessWebContents
                /\ IF contents # "undefined"
                   THEN /\ firstLoadFires' = firstLoadFires + 1
                        /\ registration' = RegisterProtocols(registration, extension)
                   ELSE UNCHANGED <<firstLoadFires, registration>>
           ELSE UNCHANGED <<loadOnce, webContentsField, firstLoadFires, registration,
                            accessGhosts>>
    /\ UNCHANGED <<surfaceContents, accessLog, resLog>>
    /\ UNCHANGED <<sessionVars, webviewVars, uiVars>>

\* a dependant reads handle.webContents
ReadWebContents ==
    /\ Len(accessLog) < MaxReads
    /\ accessLog' = Append(accessLog, WebContentsGetter(webContentsField, surfaceContents))
    /\ AccessWebContents
    /\ UNCHANGED <<surfaceContents, loadOnce, firstLoadFires, startLoadingSignals,
                   obtainableSignalSeen>>
    /\ UNCHANGED <<sessionVars, protocolVars, webviewVars, uiVars>>

\* ------------------------------------------------------------------ WebviewSession

\* typeof result !== 'undefined'
IsDefined(r) == r.kind # "undefined"

\* callback({})
EmptyResponse == Response(FALSE, NoUrl, "absent")

\* the default header answer without the event's headers
DefaultHeaderResponseDropsHeaders(details) == Response(FALSE, NoUrl, "absent")

\* callback({ cancel: false, responseHeaders: details.responseHeaders })
DefaultHeaderResponse(details) == Response(FALSE, NoUrl, details)

\* WebviewPortMappingManager.getRedirect: the tunnelled address of a mapped port, or none
RECURSIVE GetRedirect(_, _, _)
GetRedirect(url, mappings, i) ==
    IF i > Len(mappings) THEN NoUrl
    ELSE IF mappings[i].webviewPort = url.port
         THEN [host |-> "tunnel", port |-> mappings[i].extensionHostPort, path |-> url.path]
         ELSE GetRedirect(url, mappings, i + 1)

\* () => (this.content.options.portMapping || [])
GetPortMappings(c) == OrEmpty(c.options.portMapping)

\* the delegate WebviewPortMappingProvider registers
PortMappingDelegate(url, c) ==
    LET redirect == GetRedirect(url, GetPortMappings(c), 1) IN
    IF redirect # NoUrl THEN Response(FALSE, redirect, "absent") ELSE Undefined

RequestDelegateKinds == {"skip", "redirect", "throw"}
HeaderDelegateKinds == {"skip", "cancel", "allow", "throw"}

\* what a request delegate of each kind resolves to for a request
RequestDelegateResult(kind, url, c) ==
    CASE kind = "portMapping" -> PortMappingDelegate(url, c)
      [] kind = "skip" -> Undefined
      [] kind = "redirect" -> Response(FALSE, [host |-> "x", port |-> 443, path |-> "/y"], "absent")
      [] kind = "throw" -> Throws

\* what a header delegate of each kind returns
HeaderDelegateResult(kind, details) ==
    CASE kind = "skip" -> Undefined
      [] kind = "cancel" -> Response(TRUE, NoUrl, "absent")
      [] kind = "allow" -> Response(FALSE, NoUrl, "absent")
      [] kind = "throw" -> Throws

\* delegates registered after construction
Registered == Len(reqDelegates) - 1 + Len(hdrDelegates)

\* onBeforeRequest(delegate)
RegisterRequestDelegate(kind) ==
    /\ Registered < MaxDelegates
    /\ reqDelegates' = Append(reqDelegates, kind)
    /\ UNCHANGED <<hdrDelegates, requests, nReq, hdrEvents>>
    /\ UNCHANGED <<handleVars, protocolVars, webviewVars, uiVars>>

\* onHeadersReceived(delegate)
RegisterHeaderDelegate(kind) ==
    /\ Registered < MaxDelegates
    /\ hdrDelegates' = Append(hdrDelegates, kind)
    /\ UNCHANGED <<reqDelegates, requests, nReq, hdrEvents>>
    /\ UNCHANGED <<handleVars, protocolVars, webviewVars, uiVars>>

\* The handlers are installed on the session when onFirstLoad fires.
Wired == firstLoadFires > 0 /\ webContentsField # "destroyed"

\* The request handler from the top of the loop at delegate i: it calls the
\* delegate and suspends on its promise, or, past the last delegate, answers {}.
EnterRequestLoop(r, i) ==
    IF i > Len(reqDelegates)
    THEN [r EXCEPT !.status = "answered", !.answer = EmptyResponse,
                   !.callbacks = @ + 1]
    ELSE LET result == RequestDelegateResult(reqDelegates[i], r.url, content) IN
         [r EXCEPT !.status = "suspended", !.idx = i,
                   !.awaited = result,
                   !.evaluated = Append(r.evaluated, i),
                   !.results = Append(r.results, result)]

\* The request handler without the `return` after callback(result): the loop goes on.
AfterAwaitNoReturn(r) ==
    IF r.awaited.kind = "throws"
    THEN [r EXCEPT !.status = "aborted"]
    ELSE IF IsDefined(r.awaited)
         THEN EnterRequestLoop([r EXCEPT !.answer = r.awaited, !.callbacks = @ + 1],
                               r.idx + 1)
         ELSE EnterRequestLoop(r, r.idx + 1)

\* The request handler when the awaited promise settles.
AfterAwait(r) ==
    IF r.awaited.kind = "throws"
    THEN [r EXCEPT !.status = "aborted"]
    ELSE IF IsDefined(r.awaited)
         THEN [r EXCEPT !.status = "answered", !.answer = r.awaited,
                        !.callbacks = @ + 1]
         ELSE EnterRequestLoop(r, r.idx + 1)

\* a request event arrives: the handler runs up to its first await
BeginRequest(url) ==
    /\ Wired
    /\ nReq + Len(hdrEvents) < MaxEvents
    /\ nReq' = nReq + 1
    /\ requests' = [requests EXCEPT ![nReq + 1] =
                        EnterRequestLoop([NoRequest EXCEPT !.url = url], 1)]
    /\ UNCHANGED <<reqDelegates, hdrDelegates, hdrEvents>>
    /\ UNCHANGED <<handleVars, protocolVars, webviewVars, uiVars>>

\* the handler invocations resumed one at a time, in arrival order
ResumeRequestInArrivalOrder(id) ==
    /\ requests[id].status = "suspended"
    /\ \A j \in 1..(id - 1) : requests[j].status # "suspended"
    /\ requests' = [requests EXCEPT ![id] = AfterAwait(requests[id])]
    /\ UNCHANGED <<reqDelegates, hdrDelegates, nReq, hdrEvents>>
    /\ UNCHANGED <<handleVars, protocolVars, webviewVars, uiVars>>

\* the delegate awaited by request id settles: the handler runs to its next await
ResumeRequest(id) ==
    /\ requests[id].status = "suspended"
    /\ requests' = [requests EXCEPT ![id] = AfterAwait(requests[id])]
    /\ UNCHANGED <<reqDelegates, hdrDelegates, nReq, hdrEvents>>
    /\ UNCHANGED <<handleVars, protocolVars, webviewVars, uiVars>>

\* The header handler's loop from delegate i on.
RECURSIVE HeaderLoop(_, _, _, _)
HeaderLoop(delegates, details, i, evaluated) ==
    IF i > Len(delegates)
    THEN [status |-> "answered", answer |-> DefaultHeaderResponse(details),
          evaluated |-> evaluated]
    ELSE LET result == HeaderDelegateResult(delegates[i], details) IN
         IF result.kind = "throws"
         THEN [status |-> "aborted", answer |-> Undefined, evaluated |-> Append(evaluated, i)]
         ELSE IF IsDefined(result)
              THEN [status |-> "answered", answer |-> result,
                    evaluated |-> Append(evaluated, i)]
              ELSE HeaderLoop(delegates, details, i + 1, Append(evaluated, i))

\* a response-headers event arrives and is handled synchronously
HeaderEvent(details) ==
    /\ Wired
    /\ nReq + Len(hdrEvents) < MaxEvents
    /\ LET out == HeaderLoop(hdrDelegates, details, 1, <<>>) IN
        hdrEvents' = Append(hdrEvents,
            [details |-> details, delegates |-> hdrDelegates, status |-> out.status,
             answer |-> out.answer, evaluated |-> out.evaluated])
    /\ UNCHANGED <<reqDelegates, hdrDelegates, requests, nReq>>
    /\ UNCHANGED <<handleVars, protocolVars, webviewVars, uiVars>>

SessionNext ==
    \/ OnDidStartLoading
    \/ OnDestroyed
    \/ \E k \in RequestDelegateKinds : RegisterRequestDelegate(k)
    \/ \E k \in HeaderDelegateKinds : RegisterHeaderDelegate(k)
    \/ \E u \in RequestUrls : BeginRequest(u)
    \/ \E id \in 1..MaxEvents : ResumeRequest(id)
    \/ \E h \in HeaderSets : HeaderEvent(h)

\* the session, content and resource-protocol code never reads the platform or
\* the extension-development flag: their specifications fix both
InitOnMacInDevelopment == Init /\ isMacintosh /\ isExtensionDevelopment

SpecSession == InitOnMacInDevelopment /\ [][SessionNext]_vars

\* ------------------------------------------------------------------ content

\* areWebviewInputOptionsEqual: field-wise comparison, not object identity
AreWebviewInputOptionsEqual(a, b) ==
    /\ a.localResourceRoots = b.localResourceRoots
    /\ a.portMapping = b.portMapping

\* the contentOptions setter's test with object identity in place of the comparison
OptionsUnchangedByIdentity(options, c) == options = c.options

\* the contentOptions setter's early-return test
OptionsUnchanged(options, c) == AreWebviewInputOptionsEqual(options, c.options)

\* the state setter's new descriptor, with html reset
WithStateResetsHtml(c, state) == [html |-> "", options |-> c.options, state |-> state]

\* the state setter's new descriptor
WithState(c, state) == [html |-> c.html, options |-> c.options, state |-> state]

\* the contentOptions setter's new descriptor
WithOptions(c, options) == [html |-> c.html, options |-> options, state |-> c.state]

\* the html setter's new descriptor
WithHtml(c, value) == [html |-> value, options |-> c.options, state |-> c.state]

\* doUpdateContent's payload without the state
ContentPayloadWithoutState(c) ==
    [contents |-> c.html, options |-> c.options, state |-> "undefined"]

\* doUpdateContent's payload
ContentPayload(c) == [contents |-> c.html, options |-> c.options, state |-> c.state]

\* _send(channel, data): a callback is chained on _ready; the message notes
\* whether the call came before readiness and after the handle was destroyed
Send(channel, data) ==
    /\ nSends < MaxSends
    /\ nSends' = nSends + 1
    /\ pending' = Append(pending,
          [channel |-> channel, data |-> data, n |-> nSends + 1,
           beforeReady |-> ~ready, afterDestroyed |-> webContentsField = "destroyed"])

\* doUpdateContent() with the descriptor c
DoUpdateContent(c) ==
    /\ Send("content", ContentPayload(c))
    /\ pushLog' = Append(pushLog, [n |-> nSends + 1, at |-> c])

\* Inbound ipc messages are tasks: they run once the promise callbacks have run.
MicrotasksDrained == ~ready \/ pending = <<>>

\* the _ready.then callback run without waiting for _ready
DeliverBeforeReady ==
    /\ pending # <<>>
    /\ pending' = Tail(pending)
    /\ IF element
       THEN delivered' = Append(delivered, Head(pending)) /\ UNCHANGED dropped
       ELSE dropped' = Append(dropped, Head(pending)) /\ UNCHANGED delivered
    /\ UNCHANGED <<extension, content, element, ready, nSends, pushLog, lastOp>>
    /\ UNCHANGED <<handleVars, sessionVars, protocolVars, uiVars>>

\* the _ready.then callbacks run newest first
DeliverNewestFirst ==
    /\ ready
    /\ pending # <<>>
    /\ pending' = SubSeq(pending, 1, Len(pending) - 1)
    /\ IF element
       THEN delivered' = Append(delivered, pending[Len(pending)]) /\ UNCHANGED dropped
       ELSE dropped' = Append(dropped, pending[Len(pending)]) /\ UNCHANGED delivered
    /\ UNCHANGED <<extension, content, element, ready, nSends, pushLog, lastOp>>
    /\ UNCHANGED <<handleVars, sessionVars, protocolVars, uiVars>>

\* the callback _send chained on _ready runs
Deliver ==
    /\ ready
    /\ pending # <<>>
    /\ pending' = Tail(pending)
    /\ IF element
       THEN delivered' = Append(delivered, Head(pending)) /\ UNCHANGED dropped
       ELSE dropped' = Append(dropped, Head(pending)) /\ UNCHANGED delivered
    /\ UNCHANGED <<extension, content, element, ready, nSends, pushLog, lastOp>>
    /\ UNCHANGED <<handleVars, sessionVars, protocolVars, uiVars>>

\* the surface signals readiness: _ready resolves
SurfaceReady ==
    /\ element
    /\ ~ready
    /\ ready' = TRUE
    /\ UNCHANGED <<extension, content, element, pending, delivered, dropped, nSends, pushLog, lastOp>>
    /\ UNCHANGED <<handleVars, sessionVars, protocolVars, uiVars>>

\* the webview is disposed: this.element becomes undefined
ElementGone ==
    /\ element
    /\ element' = FALSE
    /\ UNCHANGED <<extension, content, ready, pending, delivered, dropped, nSends, pushLog, lastOp>>
    /\ UNCHANGED <<handleVars, sessionVars, protocolVars, uiVars>>

\* set state(state)
SetState(state) ==
    /\ content' = WithState(content, state)
    /\ UNCHANGED <<extension, element, ready, pending, delivered, dropped, nSends, pushLog>>
    /\ lastOp' = Op("setState", 0)
    /\ UNCHANGED <<handleVars, sessionVars, protocolVars, uiVars>>

\* the do-update-state handler
OnDoUpdateState(state) ==
    /\ MicrotasksDrained
    /\ element
    /\ content' = WithState(content, state)
    /\ UNCHANGED <<extension, element, ready, pending, delivered, dropped, nSends, pushLog>>
    /\ lastOp' = Op("do-update-state", 0)
    /\ UNCHANGED <<handleVars, sessionVars, protocolVars, uiVars>>

\* set contentOptions(options)
SetContentOptions(options) ==
    /\ IF OptionsUnchanged(options, content)
       THEN UNCHANGED <<content, pending, nSends, pushLog>>
       ELSE /\ content' = WithOptions(content, options)
            /\ DoUpdateContent(content')
    /\ UNCHANGED <<extension, element, ready, delivered, dropped>>
    /\ lastOp' = Op("setContentOptions", options.ident)
    /\ UNCHANGED <<handleVars, sessionVars, protocolVars, uiVars>>

\* set html(value)
SetHtml(value) ==
    /\ content' = WithHtml(content, value)
    /\ DoUpdateContent(content')
    /\ UNCHANGED <<extension, element, ready, delivered, dropped>>
    /\ lastOp' = Op("setHtml", 0)
    /\ UNCHANGED <<handleVars, sessionVars, protocolVars, uiVars>>

\* reload()
Reload ==
    /\ DoUpdateContent(content)
    /\ UNCHANGED <<extension, content, element, ready, delivered, dropped>>
    /\ lastOp' = Op("reload", 0)
    /\ UNCHANGED <<handleVars, sessionVars, protocolVars, uiVars>>

\* the do-reload handler
OnDoReload ==
    /\ MicrotasksDrained
    /\ element
    /\ DoUpdateContent(content)
    /\ UNCHANGED <<extension, content, element, ready, delivered, dropped>>
    /\ lastOp' = Op("do-reload", 0)
    /\ UNCHANGED <<handleVars, sessionVars, protocolVars, uiVars>>

ContentNext ==
    \/ \E s \in StateValues : SetState(s)
    \/ \E s \in StateValues : OnDoUpdateState(s)
    \/ \E o \in OptionValues : SetContentOptions(o)
    \/ \E h \in HtmlValues : SetHtml(h)
    \/ Reload
    \/ OnDoReload
    \/ SurfaceReady
    \/ ElementGone
    \/ Deliver

SpecContent == InitOnMacInDevelopment /\ [][ContentNext]_vars

\* ------------------------------------------------------------------ resource protocol

\* the roots accessor reading the constructor's contentOptions argument
GetLocalResourceRootsOfConstructorArgument(c) == OrEmpty(InitialOptions.localResourceRoots)

\* () => (this.content.options.localResourceRoots || [])
GetLocalResourceRoots(c) == OrEmpty(c.options.localResourceRoots)

\* the location of an extension
LocationOf(ext) == IF ext = "extA" THEN ExtLocA ELSE ExtLocB

\* path lies under root
IsDescendant(path, root) ==
    Len(root) <= Len(path) /\ SubSeq(path, 1, Len(root)) = root

\* the protocol handler's decision: under the extension location or under a root
ResourceAllowed(path, extLocation, roots) ==
    \/ extLocation # "none" /\ IsDescendant(path, LocationOf(extLocation))
    \/ \E i \in 1..Len(roots) : IsDescendant(path, roots[i])

\* the log keeps the two most recent requests
LastTwo(log) == IF Len(log) > 2 THEN Tail(log) ELSE log

\* the handler registerFileProtocol installed serves a request: it holds the
\* extension location it was given and calls the roots accessor
ResourceRequest(path) ==
    /\ registration.count > 0
    /\ resLog' = LastTwo(Append(resLog,
          [path |-> path,
           allowed |-> ResourceAllowed(path, registration.extensionLocation,
                                       GetLocalResourceRoots(content)),
           rootsThen |-> content.options.localResourceRoots,
           extensionThen |-> extension,
           registeredExtension |-> registration.extensionLocation,
           registrations |-> registration.count]))
    /\ UNCHANGED registration
    /\ UNCHANGED <<handleVars, sessionVars, webviewVars, uiVars>>

\* webview.extension = ...
SetExtension(ext) ==
    /\ extension' = ext
    /\ lastOp' = Op("setExtension", 0)
    /\ UNCHANGED <<content, element, ready, pending, delivered, dropped, nSends, pushLog>>
    /\ UNCHANGED <<handleVars, sessionVars, protocolVars, uiVars>>

\* the options the roots are switched between
RootOptionValues == {o \in OptionValues : o.ident \in {1, 3}}

ProtocolNext ==
    \/ OnDidStartLoading
    \/ \E o \in RootOptionValues : SetContentOptions(o)
    \/ \E e \in ExtensionValues : SetExtension(e)
    \/ \E p \in ResourcePaths : ResourceRequest(p)

SpecProtocol == InitOnMacInDevelopment /\ [][ProtocolNext]_vars

\* ------------------------------------------------------------------ outbound channel
MessageValues == {"m1", "m2"}
NoData == [value |-> "undefined"]

\* sendMessage(data)
SendMessage(data) ==
    /\ Send("message", [value |-> data])
    /\ lastOp' = Op("sendMessage", 0)
    /\ UNCHANGED <<extension, content, element, ready, delivered, dropped, pushLog>>
    /\ UNCHANGED <<handleVars, sessionVars, protocolVars, uiVars>>

\* set initialScrollProgress(value)
SetInitialScrollProgress(value) ==
    /\ Send("initial-scroll-position", [value |-> value])
    /\ lastOp' = Op("initialScrollProgress", 0)
    /\ UNCHANGED <<extension, content, element, ready, delivered, dropped, pushLog>>
    /\ UNCHANGED <<handleVars, sessionVars, protocolVars, uiVars>>

\* style(), run when the theme data changes
Style ==
    /\ Send("styles", ThemeData)
    /\ lastOp' = Op("style", 0)
    /\ UNCHANGED <<extension, content, element, ready, delivered, dropped, pushLog>>
    /\ UNCHANGED <<handleVars, sessionVars, protocolVars, uiVars>>

\* the 'devtools-opened' listener of the element
OnDevtoolsOpened ==
    /\ element
    /\ MicrotasksDrained
    /\ Send("devtools-opened", NoData)
    /\ lastOp' = Op("devtools-opened", 0)
    /\ UNCHANGED <<extension, content, element, ready, delivered, dropped, pushLog>>
    /\ UNCHANGED <<handleVars, sessionVars, protocolVars, uiVars>>

\* ------------------------------------------------------------------ focus and keyboard

\* handleFocusChange(isFocused)
HandleFocusChange(isFocused) ==
    /\ focused' = isFocused
    /\ focusFired' = (focusFired \/ isFocused)
    /\ refired' = (refired \/ (isFocused /\ focused))

\* focus()
Focus ==
    /\ element
    /\ Send("focus", NoData)
    /\ HandleFocusChange(TRUE)
    /\ lastOp' = Op("focus", 0)
    /\ UNCHANGED <<extension, content, element, ready, delivered, dropped, pushLog>>
    /\ UNCHANGED <<handleVars, sessionVars, protocolVars>>
    /\ UNCHANGED <<findVars, cspVars, environmentVars, keyboardVars>>

ShouldToggleAlways(mac) == TRUE

\* get shouldToggleMenuShortcutsEnablement()
ShouldToggleMenuShortcutsEnablement(mac) == mac

OnOff(b) == IF b THEN "on" ELSE "off"

\* setIgnoreMenuShortcuts(value)
SetIgnoreMenuShortcuts(value) ==
    IF ~ShouldToggleMenuShortcutsEnablement(isMacintosh)
    THEN UNCHANGED <<webContentsField, accessGhosts, hostFlag, writeTick>>
    ELSE /\ AccessWebContents
         /\ IF WebContentsGetter(webContentsField, surfaceContents) # "undefined"
            THEN hostFlag' = OnOff(value) /\ writeTick' = ~writeTick
            ELSE UNCHANGED <<hostFlag, writeTick>>

\* what every ipc-message and keyboard handler leaves alone
KeyboardFrame ==
    /\ UNCHANGED <<surfaceContents, loadOnce, firstLoadFires, startLoadingSignals,
                   obtainableSignalSeen, accessLog>>
    /\ UNCHANGED <<extension, content, element, ready, pending, delivered, dropped,
                   nSends, pushLog>>
    /\ UNCHANGED <<sessionVars, protocolVars, findVars, cspVars, environmentVars>>

\* 'did-focus' from the page: the keyboard handler's ipc-message listener,
\* then the webview's on(didFocus) handler
OnDidFocus ==
    /\ element
    /\ MicrotasksDrained
    /\ SetIgnoreMenuShortcuts(ignoreMenuShortcut)
    /\ HandleFocusChange(TRUE)
    /\ lastOp' = Op("did-focus", 0)
    /\ UNCHANGED <<ignoreMenuShortcut, lastActiveKeydown>>
    /\ KeyboardFrame

\* 'did-blur' from the page: both listeners again
OnDidBlur ==
    /\ element
    /\ MicrotasksDrained
    /\ SetIgnoreMenuShortcuts(FALSE)
    /\ HandleFocusChange(FALSE)
    /\ lastOp' = Op("did-blur", 0)
    /\ UNCHANGED <<ignoreMenuShortcut, lastActiveKeydown>>
    /\ KeyboardFrame

InputTypes == {"keyDown", "keyUp"}

\* 'before-input-event' of the contents onFirstLoad handed over: the listener
\* exists on macOS once onFirstLoad has fired, and the contents can emit
BeforeInputEvent(type, modifier, active) ==
    /\ ShouldToggleMenuShortcutsEnablement(isMacintosh)
    /\ firstLoadFires > 0
    /\ webContentsField # "destroyed"
    /\ MicrotasksDrained
    /\ IF type = "keyDown" /\ active
       THEN /\ ignoreMenuShortcut' = modifier
            /\ lastActiveKeydown' = OnOff(modifier)
            /\ SetIgnoreMenuShortcuts(modifier)
       ELSE UNCHANGED <<ignoreMenuShortcut, lastActiveKeydown, webContentsField,
                        accessGhosts, hostFlag, writeTick>>
    /\ lastOp' = Op("before-input-event", IF type = "keyDown" /\ active THEN 1 ELSE 0)
    /\ UNCHANGED focusVars
    /\ KeyboardFrame

FocusNext ==
    \/ OnDidFocus
    \/ OnDidBlur
    \/ Focus
    \/ \E t \in InputTypes, m \in BOOLEAN, a \in BOOLEAN : BeforeInputEvent(t, m, a)
    \/ OnDidStartLoading
    \/ SurfaceChange
    \/ OnDestroyed
    \/ ElementGone

SpecFocus == Init /\ [][FocusNext]_vars

SendNext ==
    \/ \E d \in MessageValues : SendMessage(d)
    \/ \E h \in HtmlValues : SetHtml(h)
    \/ SetInitialScrollProgress("50")
    \/ Style
    \/ Focus
    \/ OnDevtoolsOpened
    \/ SurfaceReady
    \/ ElementGone
    \/ OnDestroyed
    \/ Deliver

SpecSend == InitOnMacInDevelopment /\ [][SendNext]_vars

\* ------------------------------------------------------------------ find
FindValues == {"", "foo"}

\* an empty value taken for a search string
IsEmptyValueNever(value) == FALSE

\* !value
IsEmptyValue(value) == value = ""

\* this.element.findInPage(value, options)
FindInPage(value, options) ==
    /\ Len(searchLog) < MaxSearches
    /\ searchLog' = Append(searchLog,
          [value |-> value, findNext |-> options.findNext, forward |-> options.forward])

\* the caller's findNext passed through
FindOptionsOfCaller(options) == [forward |-> options.forward, findNext |-> options.findNext]

\* findOptions of startFind: findNext must be false for a first request
FindOptions(options) == [forward |-> options.forward, findNext |-> FALSE]

\* the body of startFind(value, options)
DoStartFind(value, options) ==
    IF IsEmptyValue(value) \/ ~element
    THEN UNCHANGED <<findStarted, searchLog>>
    ELSE /\ findStarted' = TRUE
         /\ FindInPage(value, FindOptions(options))

\* what no find method assigns
FindFrame ==
    /\ UNCHANGED <<extension, content, element, ready, pending, delivered, dropped,
                   nSends, pushLog>>
    /\ UNCHANGED <<handleVars, sessionVars, protocolVars>>
    /\ UNCHANGED <<focusVars, cspVars, environmentVars, keyboardVars>>

ValueCode(value) == IF value = "" THEN 0 ELSE 1

\* startFind(value, options)
StartFind(value, options) ==
    /\ DoStartFind(value, options)
    /\ lastOp' = Op("startFind", ValueCode(value))
    /\ UNCHANGED lastHasResult
    /\ FindFrame

\* find(value, previous)
Find(value, previous) ==
    /\ IF ~element
       THEN UNCHANGED <<findStarted, searchLog>>
       ELSE IF IsEmptyValue(value)
       THEN UNCHANGED <<findStarted, searchLog>>
       ELSE LET options == [findNext |-> TRUE, forward |-> ~previous] IN
            IF ~findStarted
            THEN DoStartFind(value, options)
            ELSE FindInPage(value, options) /\ UNCHANGED findStarted
    /\ lastOp' = Op("find", ValueCode(value))
    /\ UNCHANGED lastHasResult
    /\ FindFrame

\* stopFind(keepSelection)
StopFind(keepSelection) ==
    /\ lastHasResult' = "false"
    /\ IF ~element
       THEN UNCHANGED <<findStarted, searchLog>>
       ELSE findStarted' = FALSE /\ searchLog' = <<>>
    /\ lastOp' = Op("stopFind", 0)
    /\ FindFrame

\* the 'found-in-page' listener of the element
OnFoundInPage(matches) ==
    /\ element
    /\ MicrotasksDrained
    /\ lastHasResult' = (IF matches > 0 THEN "true" ELSE "false")
    /\ lastOp' = Op("found-in-page", matches)
    /\ UNCHANGED <<findStarted, searchLog>>
    /\ FindFrame

StartFindOptionValues == [forward : BOOLEAN, findNext : BOOLEAN]

FindNext ==
    \/ \E v \in FindValues, o \in StartFindOptionValues : StartFind(v, o)
    \/ \E v \in FindValues, p \in BOOLEAN : Find(v, p)
    \/ \E k \in BOOLEAN : StopFind(k)
    \/ \E n \in {0, 1} : OnFoundInPage(n)
    \/ ElementGone

SpecFind == Init /\ [][FindNext]_vars

\* ------------------------------------------------------------------ missing CSP

\* the alerted flag never consulted
AlreadyAlertedNever(flag) == FALSE

\* if (this._hasAlertedAboutMissingCsp) return
AlreadyAlerted(flag) == flag

\* the 'no-csp-found' handler: handleNoCspFound()
OnNoCspFound ==
    /\ element
    /\ MicrotasksDrained
    /\ firstCspSignal' = IF firstCspSignal # "unseen" THEN firstCspSignal ELSE extension
    /\ IF AlreadyAlerted(hasAlertedAboutMissingCsp)
       THEN UNCHANGED <<hasAlertedAboutMissingCsp, missingCspFires>>
       ELSE /\ hasAlertedAboutMissingCsp' = TRUE
            /\ missingCspFires' =
                  IF extension # "none" /\ isExtensionDevelopment
                  THEN missingCspFires + 1
                  ELSE missingCspFires
    /\ lastOp' = Op("no-csp-found", 0)
    /\ UNCHANGED <<extension, content, element, ready, pending, delivered, dropped,
                   nSends, pushLog>>
    /\ UNCHANGED <<handleVars, sessionVars, protocolVars>>
    /\ UNCHANGED <<focusVars, findVars, environmentVars, keyboardVars>>

CspNext ==
    \/ OnNoCspFound
    \/ \E e \in ExtensionValues : SetExtension(e)
    \/ SurfaceReady
    \/ ElementGone

SpecCsp == Init /\ [][CspNext]_vars

HandleNext == OnDestroyed \/ SurfaceChange \/ OnDidStartLoading \/ ReadWebContents

SpecHandle == Init /\ [][HandleNext]_vars

\* ------------------------------------------------------------------ the whole webview
Next ==
    \/ HandleNext \/ SessionNext \/ ProtocolNext \/ ContentNext
    \/ SendNext \/ FocusNext \/ FindNext \/ CspNext

Spec == Init /\ [][Next]_vars

\* ------------------------------------------------------------------ properties

\* 1..k as a sequence
Upto(k) == [i \in 1..k |-> i]

\* what the i-th delegate called for request r returned, under the content
\* options of the moment it was called
ReqResult(r, i) == r.results[i]
\* what delegate i answered to header event e
HdrResult(e, i) == HeaderDelegateResult(e.delegates[i], e.details)

\* C1: for every request event and every header event, the delegates evaluated
\* are the first k in registration order, none of the first k-1 returned a
\* defined result (so nothing registered after the first defined result is
\* evaluated), and an answer that comes from a delegate is the k-th one's result.
C1_FirstDefinedShortCircuits ==
    /\ \A id \in 1..MaxEvents :
          LET r == requests[id]
              k == Len(r.evaluated) IN
          r.status # "none" =>
            /\ r.evaluated = Upto(k)
            /\ k <= Len(reqDelegates)
            /\ \A j \in 1..(k - 1) : ReqResult(r, j).kind = "undefined"
            /\ r.status = "answered" =>
                 IF k > 0 /\ ReqResult(r, k).kind = "response"
                 THEN r.answer = ReqResult(r, k)
                 ELSE r.answer = EmptyResponse
    /\ \A n \in 1..Len(hdrEvents) :
          LET e == hdrEvents[n]
              k == Len(e.evaluated) IN
            /\ e.evaluated = Upto(k)
            /\ k <= Len(e.delegates)
            /\ \A j \in 1..(k - 1) : HdrResult(e, j).kind = "undefined"
            /\ e.status = "answered" =>
                 IF k > 0 /\ HdrResult(e, k).kind = "response"
                 THEN e.answer = HdrResult(e, k)
                 ELSE e.answer = DefaultHeaderResponse(e.details)

\* A request answered by its second delegate while a third one is registered.
C1_Witness ==
    \E id \in 1..MaxEvents :
        /\ requests[id].status = "answered"
        /\ requests[id].evaluated = <<1, 2>>
        /\ requests[id].answer.redirectURL.host = "x"
        /\ Len(reqDelegates) = 3

\* C2: a header event whose delegates (none, or all without opinion) gave no
\* defined result is answered {cancel: false, responseHeaders: its own headers};
\* a request event that ran to its end with no defined result is answered with
\* neither a redirect nor a denial.
C2_DefaultPassthrough ==
    /\ \A n \in 1..Len(hdrEvents) :
          LET e == hdrEvents[n] IN
          (\A i \in 1..Len(e.delegates) : HdrResult(e, i).kind = "undefined") =>
            /\ e.status = "answered"
            /\ e.answer.kind = "response"
            /\ e.answer.cancel = FALSE
            /\ e.answer.responseHeaders = e.details
    /\ \A id \in 1..MaxEvents :
          LET r == requests[id] IN
          ( /\ r.status \in {"answered", "aborted"}
            /\ \A i \in 1..Len(r.evaluated) : ReqResult(r, i).kind = "undefined" ) =>
            /\ r.status = "answered"
            /\ r.answer.kind = "response"
            /\ r.answer.redirectURL = NoUrl
            /\ r.answer.cancel = FALSE

\* A header event with one no-opinion delegate and a request whose two delegates
\* had no opinion, both answered.
C2_Witness ==
    /\ \E n \in 1..Len(hdrEvents) :
          hdrEvents[n].delegates = <<"skip">> /\ hdrEvents[n].status = "answered"
    /\ \E id \in 1..MaxEvents :
          requests[id].status = "answered" /\ requests[id].evaluated = <<1, 2>>
          /\ requests[id].answer = EmptyResponse

\* C3: a delegate that throws or rejects counts as no opinion, so no request or
\* header event is ever left without its callback invoked.
C3_FailureIsNoOpinion ==
    /\ \A id \in 1..MaxEvents : requests[id].status # "aborted"
    /\ \A n \in 1..Len(hdrEvents) : hdrEvents[n].status # "aborted"

\* C4: onFirstLoad fires at most once, and has fired once a did-start-loading
\* signal has arrived at which a session reference was obtainable.
C4_FiresAtFirstObtainableSignal ==
    /\ firstLoadFires <= 1
    /\ obtainableSignalSeen => firstLoadFires = 1

\* C5: once 'destroyed' was observed the handle stays destroyed, the accessor
\* gives undefined whatever the surface would give, every read made returned
\* undefined, and onFirstLoad does not fire.
C5_DestroyedIsTerminal ==
    [][webContentsField = "destroyed" =>
         /\ webContentsField' = "destroyed"
         /\ firstLoadFires' = firstLoadFires
         /\ \A surface \in {"undefined", "wc"} :
               WebContentsGetter(webContentsField', surface) = "undefined"
         /\ accessLog' # accessLog => accessLog' = Append(accessLog, "undefined")]_vars

\* A read that gave the session, then a destroy, then a read that gave undefined
\* while the surface still has contents, and a did-start-loading that fired nothing.
C5_Witness ==
    /\ webContentsField = "destroyed"
    /\ surfaceContents = "wc"
    /\ accessLog = <<"wc", "undefined">>
    /\ loadOnce /\ firstLoadFires = 0

\* the messages of a sequence sent on the content channel
ContentMessages(msgs) == SelectSeq(msgs, LAMBDA m : m.channel = "content")

\* C8: each descriptor setter leaves the two fields it does not set as they
\* were; setting the state, by the setter or by a do-update-state message,
\* also sends nothing.
C8_SettersTouchOneField ==
    [][ /\ \A st \in StateValues :
             (SetState(st) \/ OnDoUpdateState(st)) =>
                 /\ content'.state = st
                 /\ content'.html = content.html
                 /\ content'.options = content.options
                 /\ nSends' = nSends /\ pending' = pending /\ delivered' = delivered
        /\ \A h \in HtmlValues :
             SetHtml(h) =>
                 /\ content'.html = h
                 /\ content'.options = content.options
                 /\ content'.state = content.state
        /\ \A o \in OptionValues :
             SetContentOptions(o) =>
                 /\ content'.html = content.html
                 /\ content'.state = content.state ]_vars

\* The state was set last, after html and options had been set: all three hold
\* their set values and only the two pushes followed the constructor's styles.
C8_Witness ==
    /\ lastOp.name \in {"setState", "do-update-state"}
    /\ content.state = "s1"
    /\ content.html = "b"
    /\ content.options.ident = 3
    /\ nSends = 3

\* C9: every doUpdateContent call has exactly one content message of its own,
\* waiting, delivered or (element gone) dropped, never merged with another, and
\* that message carries html, options and state as they were at the call,
\* whatever the descriptor is now; with the element present and nothing waiting,
\* as many content messages were delivered as pushes were made.
C9_OnePushOneSnapshotMessage ==
    LET sent == ContentMessages(delivered \o dropped \o pending) IN
    /\ Len(sent) = Len(pushLog)
    /\ \A i \in 1..Len(pushLog) :
          \E j \in 1..Len(sent) :
            /\ sent[j].n = pushLog[i].n
            /\ sent[j].data.contents = pushLog[i].at.html
            /\ sent[j].data.options = pushLog[i].at.options
            /\ sent[j].data.state = pushLog[i].at.state
    /\ \A i, j \in 1..Len(sent) : i # j => sent[i].n # sent[j].n
    /\ (dropped = <<>> /\ pending = <<>>) =>
          Len(ContentMessages(delivered)) = Len(pushLog)

\* Two html pushes made before readiness and a state change after them, then
\* both delivered: two messages, "a" then "b", each with the state of its call.
C9_Witness ==
    /\ Len(ContentMessages(delivered)) = 2
    /\ ContentMessages(delivered)[1].data.contents = "a"
    /\ ContentMessages(delivered)[2].data.contents = "b"
    /\ ContentMessages(delivered)[1].data.state = "undefined"
    /\ ContentMessages(delivered)[2].data.state = "undefined"
    /\ content.state = "s1"
    /\ content.html = "b"

\* C10: the contentOptions setter called with options whose fields equal the
\* current ones changes neither the descriptor nor the messages sent; called
\* with other options it replaces the options field and sends one content
\* message carrying them.
C10_EqualOptionsNoOp ==
    [][ \A o \in OptionValues :
          SetContentOptions(o) =>
            IF /\ o.localResourceRoots = content.options.localResourceRoots
               /\ o.portMapping = content.options.portMapping
            THEN content' = content /\ nSends' = nSends /\ pending' = pending
            ELSE /\ content' = [content EXCEPT !.options = o]
                 /\ nSends' = nSends + 1
                 /\ Len(pending') = Len(pending) + 1
                 /\ pending'[Len(pending')].channel = "content"
                 /\ pending'[Len(pending')].data.options = o ]_vars

\* The setter was last called with an equal but distinct options object: the
\* descriptor still holds the first object and only the html push followed the
\* constructor's styles.
C10_Witness ==
    /\ lastOp = Op("setContentOptions", 2)
    /\ content.options.ident = 1
    /\ content.html = "a"
    /\ nSends = 2

\* C6: every resource request is decided against the local resource roots the
\* content options hold when the request is made, and the protocol is
\* registered once only.
C6_RootsReadPerRequest ==
    \A n \in 1..Len(resLog) :
        LET e == resLog[n] IN
        /\ e.registrations = 1
        /\ e.allowed = ResourceAllowed(e.path, e.registeredExtension, OrEmpty(e.rootsThen))

\* The same path requested twice: denied, then, the roots changed, allowed.
C6_Witness ==
    /\ Len(resLog) = 2
    /\ resLog[1].path = <<"b", "f">> /\ resLog[2].path = <<"b", "f">>
    /\ ~resLog[1].allowed /\ resLog[2].allowed
    /\ resLog[1].rootsThen # resLog[2].rootsThen
    /\ resLog[2].registrations = 1

\* C7: every resource request is scoped by the location of the extension the
\* webview has when the request is made.
C7_ExtensionLocationReadPerRequest ==
    \A n \in 1..Len(resLog) :
        LET e == resLog[n] IN
        e.allowed = ResourceAllowed(e.path, e.extensionThen, OrEmpty(e.rootsThen))

\* ------------------------------------------------------------------ outbound channel

SendNumbers(log) == {log[i].n : i \in DOMAIN log}

\* C11: nothing reaches the surface before readiness, every send made before
\* readiness is held, each send is delivered at most once, and once the
\* queue has drained with the surface present every send has been delivered.
C11_HeldUntilReady ==
    /\ ~ready => (delivered = <<>> /\ dropped = <<>> /\ Len(pending) = nSends)
    /\ \A i, j \in DOMAIN delivered : i # j => delivered[i].n # delivered[j].n
    /\ Len(delivered) + Len(dropped) + Len(pending) = nSends
    /\ (ready /\ element /\ pending = <<>>) => SendNumbers(delivered) = 1..nSends

\* a sendMessage made before readiness has been delivered after it
C11_Witness ==
    /\ ready /\ element /\ pending = <<>>
    /\ \E i \in DOMAIN delivered :
          delivered[i].channel = "message" /\ delivered[i].beforeReady

\* C12: a send made after the handle's 'destroyed' event delivers nothing to
\* the surface.
C12_SendAfterDestroyedIsDropped ==
    \A i \in DOMAIN delivered : ~delivered[i].afterDestroyed

\* C13: on each channel the surface receives messages in the order of their
\* send calls, sends queued before readiness included.
C13_ChannelOrderPreserved ==
    \A i, j \in DOMAIN delivered :
        (i < j /\ delivered[i].channel = delivered[j].channel)
            => delivered[i].n < delivered[j].n

\* two messages of one channel, both queued before readiness, both delivered
C13_Witness ==
    \E i, j \in DOMAIN delivered :
        /\ i < j
        /\ delivered[i].channel = "message" /\ delivered[j].channel = "message"
        /\ delivered[i].beforeReady /\ delivered[j].beforeReady
        /\ delivered[i].data # delivered[j].data

\* ------------------------------------------------------------------ focus and keyboard

\* C14: onDidFocus fires only when focused goes from false to true; it never
\* fires for a did-focus signal or a focus() call made while already focused.
C14_FiresOnlyOnTransition == ~refired

SessionAvailable == WebContentsGetter(webContentsField, surfaceContents) # "undefined"

LatchIsLastActiveKeydown == ignoreMenuShortcut = (lastActiveKeydown = "on")

NeverWrittenOffMac == ~isMacintosh => (hostFlag = "unset" /\ ~writeTick)

\* C19: on macOS with the session available, did-focus writes the value
\* latched by the last keydown seen with the webview active, did-blur writes
\* false and keeps the latch; off macOS, or once the handle is destroyed, the
\* host flag is never written.
C19_MenuShortcutFlagFollowsLatch ==
    [][ /\ LatchIsLastActiveKeydown /\ LatchIsLastActiveKeydown'
        /\ NeverWrittenOffMac /\ NeverWrittenOffMac'
        /\ (OnDidFocus /\ isMacintosh /\ SessionAvailable)
              => (/\ hostFlag' = OnOff(ignoreMenuShortcut)
                  /\ writeTick' # writeTick
                  /\ ignoreMenuShortcut' = ignoreMenuShortcut)
        /\ (OnDidBlur /\ isMacintosh /\ SessionAvailable)
              => (/\ hostFlag' = "off"
                  /\ writeTick' # writeTick
                  /\ ignoreMenuShortcut' = ignoreMenuShortcut)
        /\ (~isMacintosh \/ webContentsField = "destroyed")
              => (hostFlag' = hostFlag /\ writeTick' = writeTick)
      ]_vars

\* did-focus has set the flag from a latch that a keydown with control or
\* meta had set
C19_Witness ==
    /\ lastOp.name = "did-focus"
    /\ ignoreMenuShortcut
    /\ hostFlag = "on"
    /\ ~writeTick

\* did-blur has cleared the flag and the latch is still set
C19_WitnessBlur ==
    /\ lastOp.name = "did-blur"
    /\ ignoreMenuShortcut
    /\ hostFlag = "off"

\* ------------------------------------------------------------------ session accessor

\* C18: the accessor asks the surface for its contents on the first access
\* only; whatever that access got, a session or undefined, later accesses
\* never call getWebContents() again.
C18_AcquiresOnlyOnFirstAccess == ~askedAgain

\* ------------------------------------------------------------------ find

\* C15: stopFind leaves _findStarted false and the has-result signal false in
\* every state it is called in, the element being gone included.
C15_StopFindLeavesNotStarted ==
    lastOp.name = "stopFind" => (~findStarted /\ lastHasResult = "false")

\* C16: startFind and find with an empty value issue no search, send nothing
\* and leave the started flag as it was.
C16_EmptyValueIsNoOp ==
    [][ \A o \in StartFindOptionValues, p \in BOOLEAN :
          (StartFind("", o) \/ Find("", p))
            => /\ findStarted' = findStarted
               /\ searchLog' = searchLog
               /\ pending' = pending
               /\ nSends' = nSends
      ]_vars

\* find("") was called while a search was started
C16_Witness ==
    /\ lastOp = Op("find", 0)
    /\ findStarted
    /\ searchLog # <<>>
    /\ element

\* startFind("") was called while no search was started
C16_WitnessNotStarted ==
    /\ lastOp = Op("startFind", 0)
    /\ ~findStarted
    /\ element

FreshSearchFirst ==
    /\ findStarted <=> searchLog # <<>>
    /\ searchLog # <<>> => ~searchLog[1].findNext

\* C17: the first search after construction or after a stopFind has
\* findNext=false and sets the started flag; find while started issues
\* findNext=true with forward = !previous and stays started; so no findNext
\* search is issued without a fresh one since the last stopFind.
C17_FreshSearchBeforeFindNext ==
    [][ /\ FreshSearchFirst /\ FreshSearchFirst'
        /\ \A p \in BOOLEAN :
              (Find("foo", p) /\ element /\ findStarted)
                => /\ searchLog' = Append(searchLog,
                         [value |-> "foo", findNext |-> TRUE, forward |-> ~p])
                   /\ findStarted'
        /\ \A p \in BOOLEAN :
              (Find("foo", p) /\ element /\ ~findStarted)
                => /\ searchLog' =
                         <<[value |-> "foo", findNext |-> FALSE, forward |-> ~p]>>
                   /\ findStarted'
        /\ \A o \in StartFindOptionValues :
              (StartFind("foo", o) /\ element)
                => /\ searchLog' = Append(searchLog,
                         [value |-> "foo", findNext |-> FALSE, forward |-> o.forward])
                   /\ findStarted'
      ]_vars

\* a fresh search followed by find(value, true): a backward find-next
C17_Witness ==
    /\ lastOp = Op("find", 1)
    /\ findStarted
    /\ Len(searchLog) = 2
    /\ ~searchLog[1].findNext
    /\ searchLog[2].findNext /\ ~searchLog[2].forward

\* ------------------------------------------------------------------ missing CSP

\* C20: onMissingCsp fires at the first no-csp-found signal exactly when an
\* extension is set then and extension development is on, and never fires a
\* second time, whatever signals and extension changes follow.
C20_MissingCspRaisedOnce ==
    /\ missingCspFires <= 1
    /\ firstCspSignal = "unseen" => missingCspFires = 0
    /\ firstCspSignal # "unseen" =>
          (missingCspFires = 1 <=> (firstCspSignal # "none" /\ isExtensionDevelopment))

\* raised at the first signal; a later signal, under another extension, has
\* not raised it again
C20_Witness ==
    /\ lastOp.name = "no-csp-found"
    /\ firstCspSignal = "extA"
    /\ extension = "extB"
    /\ missingCspFires = 1

\* ------------------------------------------------------------------ concurrent requests

\* the first defined result among the delegates request r evaluated, else {}
OwnOutcome(r) ==
    LET defined == {i \in 1..Len(r.results) : r.results[i].kind = "response"} IN
    IF defined = {}
    THEN EmptyResponse
    ELSE r.results[CHOOSE i \in defined : \A j \in defined : i <= j]

\* a request waits on its own delegate only, its callback is called once, with
\* its own outcome, and only a delegate that threw leaves it unanswered
EachRequestOnItsOwn ==
    \A id \in 1..MaxEvents :
        LET r == requests[id] IN
        /\ r.status \in {"none", "suspended", "aborted"} => r.callbacks = 0
        /\ r.status = "suspended" => ENABLED ResumeRequest(id)
        /\ r.status = "answered" => (r.callbacks = 1 /\ r.answer = OwnOutcome(r))
        /\ r.status = "aborted" =>
              \E i \in 1..Len(r.results) : r.results[i].kind = "throws"

\* C21: with several request events in flight, each event's callback is called
\* exactly once when its delegates resolve, with the answer its own delegates'
\* results give; a step of one request leaves every other request as it was,
\* and a suspended request can always go on, whatever the others wait for.
C21_ConcurrentRequestsIndependent ==
    [][ /\ EachRequestOnItsOwn /\ EachRequestOnItsOwn'
        /\ \A id \in 1..MaxEvents :
              ResumeRequest(id) =>
                \A other \in (1..MaxEvents) \ {id} : requests'[other] = requests[other]
        /\ \A u \in RequestUrls :
              BeginRequest(u) =>
                \A other \in 1..nReq : requests'[other] = requests[other]
      ]_vars

\* the second request was answered, through two delegates, while the first is
\* still suspended on its first delegate
C21_Witness ==
    /\ requests[1].status = "suspended" /\ requests[1].idx = 1
    /\ requests[2].status = "answered" /\ requests[2].callbacks = 1
    /\ requests[2].evaluated = <<1, 2>>
    /\ requests[1].url # requests[2].url

====
